---- MODULE Spec2Model ----
(***************************************************************************)
(* A model of TurtleBehaviorAnalyzer (src/analyze_behavior.py): the        *)
(* analyzer objects, the tracking-data file they read, numpy's global      *)
(* random generator, and the operations load_data,                         *)
(* _generate_synthetic_data, analyze_movement_patterns,                    *)
(* generate_visualizations and export_results.                             *)
(*                                                                         *)
(* Numbers.  The positions and distances are binary floating-point         *)
(* numbers.  A float is modelled by the integer count of units of          *)
(* 2^-FracBits it holds, and every arithmetic result is rounded to         *)
(* Precision significant bits, to nearest, ties to even, as IEEE 754       *)
(* does (binary64 has Precision = 53; the model scales it down).  Below    *)
(* 2^(Precision-1-FracBits) the spacing stays one unit, as it does for     *)
(* subnormal numbers.                                                      *)
(***************************************************************************)
EXTENDS Integers, Sequences, FiniteSets

VARIABLES
    species,            \* self.species, per analyzer
    duration,           \* self.duration, per analyzer
    data_points,        \* self.data_points, per analyzer
    analysis_results,   \* self.analysis_results, per analyzer: a dict, as a set of <<key, value>>
    data_source,        \* per analyzer: "unset" while the attribute self.tracking_data does
                        \* not exist, else where its value came from ("csv", "synthetic")
    tracking_data,      \* self.tracking_data, per analyzer: the rows of the DataFrame
    analyzed,           \* per analyzer: whether analyze_movement_patterns has completed
                        \* since self.tracking_data was last assigned
    csv_file,           \* the file load_data is pointed at: [status, rows]
    rng,                \* the state of numpy's global random generator
    raised,             \* the exception the last call ended with, or NoError
    last_call,          \* [op, self, again]: the last call made, the analyzer it was made
                        \* on, and whether the call before it was the same
    gen_calls           \* how often the last call invoked _generate_synthetic_data

vars == <<species, duration, data_points, analysis_results, data_source,
          tracking_data, analyzed, csv_file, rng, raised, last_call, gen_calls>>

Analyzers == DOMAIN analysis_results

-----------------------------------------------------------------------------
(* Bounds of the model *)

Precision == 8
FracBits == 7
MaxRows == 4
GenPoints == 4

-----------------------------------------------------------------------------
(* Floating-point arithmetic, as numpy's float64 operations round *)

RECURSIVE Pow2(_)
Pow2(n) == IF n = 0 THEN 1 ELSE 2 * Pow2(n - 1)

One == Pow2(FracBits)

\* Significands are below 2^Precision.
SignificandLimit == Pow2(Precision)

RECURSIVE Quantum(_, _, _)
\* The spacing of the floats around num/den: the least power of two s, in
\* units, with num/den < 2^Precision * s.
Quantum(num, den, s) ==
    IF num < SignificandLimit * s * den THEN s ELSE Quantum(num, den, 2 * s)

\* num/den >= 0 (in units) rounded to the nearest float, ties to even.
RoundNearestEven(num, den) ==
    LET s == Quantum(num, den, 1)
        q == num \div (den * s)
        rem == num - q * (den * s)
        up == \/ 2 * rem > den * s
              \/ 2 * rem = den * s /\ q % 2 = 1
    IN  (IF up THEN q + 1 ELSE q) * s

FloatRound(num, den) ==
    IF num < 0 THEN 0 - RoundNearestEven(0 - num, den)
    ELSE RoundNearestEven(num, den)

FloatAdd(a, b) == FloatRound(a + b, 1)
FloatSub(a, b) == FloatRound(a - b, 1)
FloatMul(a, b) == FloatRound(a * b, One)
FloatDivInt(a, n) == FloatRound(a, n)

RECURSIVE ISqrtFrom(_, _)
\* Newton's iteration from above: the integer square root of n.
ISqrtFrom(n, r) == IF r * r <= n THEN r ELSE ISqrtFrom(n, (r + n \div r) \div 2)

RECURSIVE SqrtQuantum(_, _)
SqrtQuantum(n, s) ==
    IF n < (SignificandLimit * s) * (SignificandLimit * s) THEN s
    ELSE SqrtQuantum(n, 2 * s)

\* np.sqrt of a float v >= 0: the correctly rounded square root.
FloatSqrt(v) ==
    LET n == v * One
        s == SqrtQuantum(n, 1)
        q == ISqrtFrom(n, SignificandLimit * s) \div s
        mid == (q * s) * (q * s) + q * s * s + (s * s) \div 4
    IN  (IF n > mid THEN q + 1 ELSE q) * s

-----------------------------------------------------------------------------
(* The tracking data: a DataFrame as the sequence of its rows *)

Row(ts, id, x, y, vel, kind) ==
    [timestamp |-> ts, turtle_id |-> id, x_position |-> x, y_position |-> y,
     velocity |-> vel, interaction_type |-> kind]

NoRows == <<>>

-----------------------------------------------------------------------------
(* numpy's global random generator.  The generator is a deterministic      *)
(* function of its state; the Mersenne Twister is scaled down to a linear  *)
(* congruential generator of period 32.                                    *)

Seed == 42
StartOffset == 100

\* np.random.seed(seed): the state the seed determines.
Seeded(seed) == seed % 32

RngStep(s) == (5 * s + 3) % 32

RECURSIVE RngAfter(_, _)
\* The generator's state after n draws from state s.
RngAfter(s, n) == IF n = 0 THEN s ELSE RngAfter(RngStep(s), n - 1)

RECURSIVE Draws(_, _)
\* The raw outputs of the next n draws from state s: a draw steps the
\* generator and outputs its new state.
Draws(s, n) == IF n = 0 THEN <<>> ELSE <<RngStep(s)>> \o Draws(RngStep(s), n - 1)

RECURSIVE CumSum(_, _)
\* np.cumsum over the first n elements: the running sums, each rounded.
CumSum(xs, n) ==
    IF n = 0 THEN <<>>
    ELSE LET before == CumSum(xs, n - 1)
         IN  Append(before, IF n = 1 THEN xs[1] ELSE FloatAdd(before[n - 1], xs[n]))

\* np.random.randn: a draw centred on 0.
StandardNormal(raw) == (((raw \div 2) % 5) - 2) * One

\* np.random.choice(options): one of the options.  (Of the ids the real
\* generator draws both turtles, as test_movement_analysis asserts; so do
\* three or more draws here.)
Choice(options, raw) == options[((raw \div 2) % Len(options)) + 1]

\* np.random.gamma(2, 0.5): a draw that is never negative.
Gamma(raw) == (raw % 4) * (One \div 2)

TurtleIds == <<"turtle_a", "turtle_b">>
InteractionTypes == <<"approach", "avoid", "neutral">>

\* A generator that is not seeded again: the draws go on from the current state.
SeedStateKept(current) == current

\* np.random.seed(42) in _generate_synthetic_data: the state the draws start
\* from, whatever the generator's state was.
SeedState(current) == Seeded(Seed)

\* The rows _generate_synthetic_data builds from the state s0, n of them: the
\* draws are taken column by column (x steps, y steps, ids, velocities,
\* interaction types), and the positions are the running sums of the steps
\* plus 100.
SyntheticRows(s0, n) ==
    LET raw == Draws(s0, 5 * n)
        walk_x == CumSum([i \in 1 .. n |->
                      FloatMul(StandardNormal(raw[i]), One \div 2)], n)
        walk_y == CumSum([i \in 1 .. n |->
                      FloatMul(StandardNormal(raw[n + i]), One \div 2)], n)
    IN  [i \in 1 .. n |->
            Row(i - 1,
                Choice(TurtleIds, raw[2 * n + i]),
                FloatAdd(walk_x[i], StartOffset * One),
                FloatAdd(walk_y[i], StartOffset * One),
                Gamma(raw[3 * n + i]),
                Choice(InteractionTypes, raw[4 * n + i]))]

\* The generator's state once _generate_synthetic_data has drawn its five columns.
RngAfterSynthetic(s0, n) == RngAfter(s0, 5 * n)

-----------------------------------------------------------------------------
(* analyze_movement_patterns *)

Threshold == 10

RECURSIVE Reversed(_)
Reversed(xs) == IF xs = <<>> THEN <<>> ELSE Append(Reversed(Tail(xs)), Head(xs))

\* A selection that does not keep the rows' order.
SeriesOfReversed(frame, id) == Reversed(SelectSeq(frame, LAMBDA r : r.turtle_id = id))

\* A selection that takes every turtle other than turtle_a for turtle_b.
SeriesOfLoose(frame, id) ==
    SelectSeq(frame, LAMBDA r : IF id = "turtle_b" THEN r.turtle_id # "turtle_a"
                                ELSE r.turtle_id = id)

\* self.tracking_data[self.tracking_data['turtle_id'] == id]: the rows of
\* one turtle, in the order they have in the frame.
SeriesOf(frame, id) == SelectSeq(frame, LAMBDA r : r.turtle_id = id)

Min2(m, n) == IF m < n THEN m ELSE n

\* np.sqrt((a.x - b.x)**2 + (a.y - b.y)**2)
EuclideanDistance(ra, rb) ==
    LET dx == FloatSub(ra.x_position, rb.x_position)
        dy == FloatSub(ra.y_position, rb.y_position)
    IN  FloatSqrt(FloatAdd(FloatMul(dx, dx), FloatMul(dy, dy)))

\* The list `distances` the loop over range(min(len(turtle_a), len(turtle_b))) builds.
Distances(frame) ==
    LET turtle_a == SeriesOf(frame, "turtle_a")
        turtle_b == SeriesOf(frame, "turtle_b")
    IN  [i \in 1 .. Min2(Len(turtle_a), Len(turtle_b)) |->
            EuclideanDistance(turtle_a[i], turtle_b[i])]

RECURSIVE FloatSum(_, _)
\* np.add.reduce over the first n elements: summed left to right, each sum rounded.
FloatSum(ds, n) == IF n = 0 THEN 0 ELSE FloatAdd(FloatSum(ds, n - 1), ds[n])

\* np.mean(ds), ds not empty
Mean(ds) == FloatDivInt(FloatSum(ds, Len(ds)), Len(ds))

\* np.min(ds), ds not empty
Minimum(ds) == CHOOSE d \in {ds[i] : i \in DOMAIN ds} : \A i \in DOMAIN ds : d <= ds[i]

\* A threshold that is not strict.
IsCloseOrEqual(d) == d <= Threshold * One

\* d < 10
IsClose(d) == d < Threshold * One

\* len([d for d in distances if d < 10])
CountClose(ds) == Cardinality({i \in DOMAIN ds : IsClose(ds[i])})

\* results[key] = value on a dict
DictSet(results, key, value) == {p \in results : p[1] # key} \cup {<<key, value>>}

Keys(results) == {p[1] : p \in results}

\* An analysis that keeps the two selections in place of the frame.
TrackingDataFiltered(frame) == SeriesOf(frame, "turtle_a") \o SeriesOf(frame, "turtle_b")

\* What analyze_movement_patterns leaves in self.tracking_data: the two
\* selections are new frames, and the attribute is only read.
TrackingDataAfterAnalysis(frame) == frame

\* An analysis that adds the new count to the count the dict holds.
AnalysisResultsCounting(results, frame) ==
    IF Len(SeriesOf(frame, "turtle_a")) > 0 /\ Len(SeriesOf(frame, "turtle_b")) > 0
    THEN LET distances == Distances(frame)
             counted == {p[2] : p \in {r \in results : r[1] = "interaction_frequency"}}
             before == IF counted = {} THEN 0 ELSE CHOOSE c \in counted : TRUE
         IN  DictSet(DictSet(DictSet(results,
                 "avg_distance", Mean(distances)),
                 "min_distance", Minimum(distances)),
                 "interaction_frequency", before + CountClose(distances))
    ELSE results

\* The body of analyze_movement_patterns on the dict `results` and the frame.
AnalysisResults(results, frame) ==
    IF Len(SeriesOf(frame, "turtle_a")) > 0 /\ Len(SeriesOf(frame, "turtle_b")) > 0
    THEN LET distances == Distances(frame)
         IN  DictSet(DictSet(DictSet(results,
                 "avg_distance", Mean(distances)),
                 "min_distance", Minimum(distances)),
                 "interaction_frequency", CountClose(distances))
    ELSE results

-----------------------------------------------------------------------------
(* The files load_data may be pointed at *)

File(status, rows) == [status |-> status, rows |-> rows]

\* A row of a tracking file: the turtle and its position, one row a minute.
CsvRow(i, cell) == Row(i - 1, cell[1], cell[2], cell[3], One, "neutral")

\* The (turtle, x, y) a row of the exhaustively enumerated files may hold:
\* the two analysed turtles at places 0, 5 and 10 apart, and a third turtle.
CsvCells ==
    { <<"turtle_a", 0, 0>>, <<"turtle_a", 6 * One, 8 * One>>,
      <<"turtle_b", 3 * One, 4 * One>>, <<"turtle_b", 6 * One, 8 * One>>,
      <<"turtle_c", 3 * One, 4 * One>> }

FramesOver(cells, maxRows) ==
    UNION { { [i \in 1 .. n |-> CsvRow(i, f[i])] : f \in [1 .. n -> cells] } :
            n \in 0 .. maxRows }

\* Every file of at most MaxRows rows over CsvCells, a file that does not
\* exist, and a file pd.read_csv cannot parse.
CsvFiles ==
    {File("ok", f) : f \in FramesOver(CsvCells, MaxRows)}
        \cup {File("missing", NoRows), File("malformed", NoRows)}

\* The frame of test_load_data_success: five rows, all of turtle_a.
OneTurtleFrame == [i \in 1 .. 5 |-> CsvRow(i, <<"turtle_a", i * One, i * One>>)]

\* Three pairs of rows, the two turtles 2.71875 apart in each.
ThreePairsFrame ==
    [i \in 1 .. 6 |->
        CsvRow(i, IF i % 2 = 1 THEN <<"turtle_a", 0, 0>>
                  ELSE <<"turtle_b", (87 * One) \div 32, 0>>)]

MenuFiles ==
    {File("ok", OneTurtleFrame), File("ok", ThreePairsFrame), File("missing", NoRows)}

-----------------------------------------------------------------------------
(* The operations *)

NoError == "none"

Call(op, self) ==
    [op |-> op, self |-> self, again |-> last_call.op = op /\ last_call.self = self]

HasTrackingData(self) == data_source[self] # "unset"

\* An except clause that catches nothing.
CaughtNothing(exc) == FALSE

\* The exceptions of pd.read_csv that load_data's except clause catches.
Caught(exc) == exc = "FileNotFoundError"

\* pd.read_csv(data_path): the rows read, or the exception raised.
ReadCsv(file) ==
    CASE file.status = "ok" -> [exc |-> NoError, rows |-> file.rows]
      [] file.status = "missing" -> [exc |-> "FileNotFoundError", rows |-> NoRows]
      [] OTHER -> [exc |-> "ParserError", rows |-> NoRows]

\* The body of _generate_synthetic_data on the analyzer `self`.
GenerateSyntheticData(self) ==
    /\ tracking_data' =
           [tracking_data EXCEPT ![self] = SyntheticRows(SeedState(rng), GenPoints)]
    /\ data_source' = [data_source EXCEPT ![self] = "synthetic"]
    /\ analyzed' = [analyzed EXCEPT ![self] = FALSE]
    /\ rng' = RngAfterSynthetic(SeedState(rng), GenPoints)

generate_synthetic_data(self) ==
    /\ GenerateSyntheticData(self)
    /\ gen_calls' = 1
    /\ raised' = NoError
    /\ last_call' = Call("_generate_synthetic_data", self)
    /\ UNCHANGED <<species, duration, data_points, analysis_results, csv_file>>

load_data(self) ==
    LET read == ReadCsv(csv_file)
    IN  /\ last_call' = Call("load_data", self)
        /\ UNCHANGED <<species, duration, data_points, analysis_results, csv_file>>
        /\ IF read.exc = NoError
           THEN /\ tracking_data' = [tracking_data EXCEPT ![self] = read.rows]
                /\ data_source' = [data_source EXCEPT ![self] = "csv"]
                /\ analyzed' = [analyzed EXCEPT ![self] = FALSE]
                /\ gen_calls' = 0
                /\ raised' = NoError
                /\ UNCHANGED rng
           ELSE IF Caught(read.exc)
           THEN /\ GenerateSyntheticData(self)
                /\ gen_calls' = 1
                /\ raised' = NoError
           ELSE /\ raised' = read.exc
                /\ gen_calls' = 0
                /\ UNCHANGED <<tracking_data, data_source, analyzed, rng>>

analyze_movement_patterns(self) ==
    /\ last_call' = Call("analyze_movement_patterns", self)
    /\ gen_calls' = 0
    /\ IF HasTrackingData(self)
       THEN /\ analysis_results' =
                   [analysis_results EXCEPT
                        ![self] = AnalysisResults(@, tracking_data[self])]
            /\ tracking_data' =
                   [tracking_data EXCEPT ![self] = TrackingDataAfterAnalysis(@)]
            /\ analyzed' = [analyzed EXCEPT ![self] = TRUE]
            /\ raised' = NoError
       ELSE \* self.tracking_data does not exist before the first load
            /\ raised' = "AttributeError"
            /\ UNCHANGED <<analysis_results, tracking_data, analyzed>>
    /\ UNCHANGED <<species, duration, data_points, data_source, csv_file, rng>>

\* The draws of np.random.exponential(avg_distance, len(tracking_data) // 2).
VisualizationDraws(results, frame) ==
    IF "avg_distance" \in Keys(results) THEN Len(frame) \div 2 ELSE 0

generate_visualizations(self) ==
    /\ last_call' = Call("generate_visualizations", self)
    /\ gen_calls' = 0
    /\ IF HasTrackingData(self)
       THEN /\ rng' = RngAfter(rng, VisualizationDraws(analysis_results[self],
                                                       tracking_data[self]))
            /\ raised' = NoError
       ELSE /\ raised' = "AttributeError"
            /\ UNCHANGED rng
    /\ UNCHANGED <<species, duration, data_points, analysis_results, data_source,
                   tracking_data, analyzed, csv_file>>

export_results(self) ==
    /\ last_call' = Call("export_results", self)
    /\ gen_calls' = 0
    /\ raised' = NoError
    /\ UNCHANGED <<species, duration, data_points, analysis_results, data_source,
                   tracking_data, analyzed, csv_file, rng>>

-----------------------------------------------------------------------------
(* The state after construction, and the two specifications *)

SpeciesArgs == {"chelonia", "caretta"}

\* __init__ on each analyzer of `ids`, for a species of `kinds`; the file is one of `files` and the
\* random generator starts in one of `seeds`.
Constructed(ids, kinds, files, seeds) ==
    /\ species \in [ids -> kinds]
    /\ duration = [i \in ids |-> "24h"]
    /\ data_points = [i \in ids |-> <<>>]
    /\ analysis_results = [i \in ids |-> {}]
    /\ data_source = [i \in ids |-> "unset"]
    /\ tracking_data = [i \in ids |-> NoRows]
    /\ analyzed = [i \in ids |-> FALSE]
    /\ csv_file \in files
    /\ rng \in seeds
    /\ raised = NoError
    /\ last_call = [op |-> "__init__", self |-> 0, again |-> FALSE]
    /\ gen_calls = 0

\* One analyzer, every small tracking file: loading, generating, analysing.
Init == Constructed({1}, SpeciesArgs, CsvFiles, {0})

Next ==
    \/ \E self \in Analyzers : load_data(self)
    \/ \E self \in Analyzers : generate_synthetic_data(self)
    \/ \E self \in Analyzers : analyze_movement_patterns(self)

Spec == Init /\ [][Next]_vars

\* Two analyzers in one process, sharing numpy's generator, and every operation.
InitGen == Constructed({1, 2}, {"chelonia"}, MenuFiles, {0, 13})

NextGen ==
    \/ \E self \in Analyzers : load_data(self)
    \/ \E self \in Analyzers : generate_synthetic_data(self)
    \/ \E self \in Analyzers : analyze_movement_patterns(self)
    \/ \E self \in Analyzers : generate_visualizations(self)
    \/ \E self \in Analyzers : export_results(self)

SpecGen == InitGen /\ [][NextGen]_vars

-----------------------------------------------------------------------------
(* What the claims speak of *)

AnalyzeOp == "analyze_movement_patterns"

SummaryKeys == {"avg_distance", "min_distance", "interaction_frequency"}

\* analyze_movement_patterns has just returned, without an exception, on `self`.
JustAnalyzed(self) ==
    last_call.op = AnalyzeOp /\ last_call.self = self /\ raised = NoError

\* The places of one turtle's rows in the frame.
PlacesOf(frame, id) == {p \in 1 .. Len(frame) : frame[p].turtle_id = id}

\* The place of the n-th row of the turtle, counting its rows from the top.
NthPlaceOf(frame, id, n) ==
    CHOOSE p \in PlacesOf(frame, id) :
        Cardinality({q \in PlacesOf(frame, id) : q <= p}) = n

\* k = min(len(seriesA), len(seriesB))
PairCount(frame) ==
    Min2(Cardinality(PlacesOf(frame, "turtle_a")), Cardinality(PlacesOf(frame, "turtle_b")))

PairA(frame, i) == frame[NthPlaceOf(frame, "turtle_a", i)]
PairB(frame, i) == frame[NthPlaceOf(frame, "turtle_b", i)]

\* The k distances of the pairs matched by position within each series.
PositionalDistances(frame) ==
    [i \in 1 .. PairCount(frame) |-> EuclideanDistance(PairA(frame, i), PairB(frame, i))]

\* (xA - xB)^2 + (yA - yB)^2 of the i-th pair, in exact arithmetic (units squared).
SquaredDistance(frame, i) ==
    LET dx == PairA(frame, i).x_position - PairB(frame, i).x_position
        dy == PairA(frame, i).y_position - PairB(frame, i).y_position
    IN  dx * dx + dy * dy

RECURSIVE ExactSum(_, _)
ExactSum(ds, n) == IF n = 0 THEN 0 ELSE ExactSum(ds, n - 1) + ds[n]

IsFloat(v) == FloatRound(v, 1) = v

\* The squares of the i-th pair's coordinate differences and their sum are floats.
SquaresExact(frame, i) ==
    LET dx == PairA(frame, i).x_position - PairB(frame, i).x_position
        dy == PairA(frame, i).y_position - PairB(frame, i).y_position
    IN  /\ (dx * dx) % One = 0 /\ IsFloat((dx * dx) \div One)
        /\ (dy * dy) % One = 0 /\ IsFloat((dy * dy) \div One)
        /\ IsFloat((dx * dx + dy * dy) \div One)

\* d is the distance of the i-th pair: within three float spacings of the
\* exact root, and the exact root itself where that is a float and nothing
\* before it was rounded.
IsEuclidean(d, frame, i) ==
    LET square == SquaredDistance(frame, i)
        w == 3 * Quantum(d, 1, 1)
        from == IF d > w THEN d - w ELSE 0
    IN  /\ d >= 0
        /\ from * from <= square
        /\ square <= (d + w) * (d + w)
        /\ \A e \in from .. d + w :
               e * e = square /\ IsFloat(e) /\ SquaresExact(frame, i) => d = e

\* The running sums of the first k distances are floats, and k divides their sum.
SumsExact(ds, k) ==
    /\ \A j \in 1 .. k : IsFloat(ExactSum(ds, j))
    /\ ExactSum(ds, k) % k = 0

Holds(results, key, value) == <<key, value>> \in results

ValuesAt(results, key) == {p[2] : p \in {r \in results : r[1] = key}}

HasOthers(frame) == \E p \in 1 .. Len(frame) : frame[p].turtle_id \notin {"turtle_a", "turtle_b"}

WithoutOthers(frame) ==
    SelectSeq(frame, LAMBDA r : r.turtle_id \in {"turtle_a", "turtle_b"})

OnePairFiveApart ==
    <<CsvRow(1, <<"turtle_a", 0, 0>>), CsvRow(2, <<"turtle_b", 3 * One, 4 * One>>)>>

TwoPairsTenApart ==
    [i \in 1 .. 4 |->
        CsvRow(i, IF i % 2 = 1 THEN <<"turtle_a", 0, 0>>
                  ELSE <<"turtle_b", 6 * One, 8 * One>>)]

-----------------------------------------------------------------------------
(* The claims *)

\* C1: immediately after each analyze the summary is populated only if the
\* stored samples hold both turtles; with one of them missing the summary has
\* none of its three fields, whatever an earlier analyze had stored.
C1_SummaryOnlyWithBothTurtles ==
    \A a \in Analyzers :
        JustAnalyzed(a) /\ PairCount(tracking_data[a]) = 0
            => analysis_results[a] = {}

\* C2: analyze never raises, in any state the analyzer can be in, also before
\* anything was stored.
C2_AnalyzeNeverRaises ==
    last_call.op = AnalyzeOp => raised = NoError

\* C3: with k >= 1, analyze stores the mean and the minimum of exactly the k
\* distances of the pairs matched by position within each turtle's rows (rows
\* kept in their order, the longer series' tail ignored).  Each distance is
\* the Euclidean one: within rounding of the exact root, and the exact root
\* where the squares, their sum and the root are floats.  The mean is the
\* floating-point mean, which is the exact mean where the running sums are
\* floats and k divides the sum.  For k = 1, mean = min = the one distance.
C3_MeanAndMinOfPositionalPairs ==
    \A a \in Analyzers :
        JustAnalyzed(a) /\ PairCount(tracking_data[a]) >= 1 =>
            LET frame == tracking_data[a]
                k == PairCount(frame)
                ds == PositionalDistances(frame)
                avg == ValuesAt(analysis_results[a], "avg_distance")
                low == ValuesAt(analysis_results[a], "min_distance")
            IN  /\ \A i \in 1 .. k : IsEuclidean(ds[i], frame, i)
                /\ avg = {Mean(ds)}
                /\ SumsExact(ds, k) => \A m \in avg : k * m = ExactSum(ds, k)
                /\ \E i \in 1 .. k : low = {ds[i]}
                /\ \A m \in low : \A i \in 1 .. k : m <= ds[i]
                /\ k = 1 => avg = {ds[1]} /\ low = {ds[1]}

C3_Witness ==
    /\ JustAnalyzed(1)
    /\ PairCount(tracking_data[1]) = 2
    /\ tracking_data[1][1].turtle_id = "turtle_b"
    /\ PositionalDistances(tracking_data[1])[1] # PositionalDistances(tracking_data[1])[2]

\* C4: interaction_frequency is the number of the k positional distances
\* strictly below 10: a pair exactly 10 apart is not counted (two pairs each
\* 10 apart give 0), a pair 5 apart is (A at (0,0), B at (3,4), k = 1, gives 1).
C4_CountStrictlyBelowTen ==
    \A a \in Analyzers :
        JustAnalyzed(a) /\ PairCount(tracking_data[a]) >= 1 =>
            LET frame == tracking_data[a]
                k == PairCount(frame)
                ds == PositionalDistances(frame)
                count == ValuesAt(analysis_results[a], "interaction_frequency")
            IN  /\ count = {Cardinality({i \in 1 .. k : ds[i] < 10 * One})}
                /\ frame = TwoPairsTenApart =>
                      /\ \A i \in 1 .. k : ds[i] = 10 * One
                      /\ count = {0}
                /\ frame = OnePairFiveApart =>
                      /\ ds[1] = 5 * One
                      /\ count = {1}

C4_Witness ==
    /\ JustAnalyzed(1)
    /\ tracking_data[1] = TwoPairsTenApart
    /\ Holds(analysis_results[1], "interaction_frequency", 0)

\* C5: with both turtles stored, analyze populates all three fields and
\* 0 <= min_distance <= mean_distance and 0 <= proximity_event_count <= k.
C5_SummaryBounds ==
    \A a \in Analyzers :
        JustAnalyzed(a) /\ PairCount(tracking_data[a]) >= 1 =>
            /\ Keys(analysis_results[a]) = SummaryKeys
            /\ \A avg \in ValuesAt(analysis_results[a], "avg_distance") :
               \A low \in ValuesAt(analysis_results[a], "min_distance") :
                   0 <= low /\ low <= avg
            /\ \A count \in ValuesAt(analysis_results[a], "interaction_frequency") :
                   0 <= count /\ count <= PairCount(tracking_data[a])

\* C6: analyze called twice in a row, with no other call between, leaves the
\* summary after the second call equal to the summary after the first.
C6_AnalyzeTwiceSameSummary ==
    [][\A a \in Analyzers :
          /\ last_call.op = AnalyzeOp /\ last_call.self = a
          /\ last_call'.op = AnalyzeOp /\ last_call'.self = a
          => raised' = raised /\ analysis_results'[a] = analysis_results[a]]_vars

C6_Witness ==
    /\ JustAnalyzed(1)
    /\ last_call.again
    /\ Keys(analysis_results[1]) = SummaryKeys

\* C7: load_data on a file that reads stores exactly the rows read and does
\* not invoke the generator; on a missing file it does not raise, invokes the
\* generator exactly once and stores the generator's rows.
C7_LoadOrFallBack ==
    \A a \in Analyzers :
        last_call.op = "load_data" /\ last_call.self = a =>
            /\ csv_file.status = "ok" =>
                  /\ raised = NoError
                  /\ data_source[a] = "csv"
                  /\ tracking_data[a] = csv_file.rows
                  /\ gen_calls = 0
            /\ csv_file.status = "missing" =>
                  /\ raised = NoError
                  /\ data_source[a] = "synthetic"
                  /\ tracking_data[a] = SyntheticRows(Seeded(Seed), GenPoints)
                  /\ gen_calls = 1

C7_Witness ==
    /\ last_call.op = "load_data"
    /\ csv_file.status = "missing"
    /\ gen_calls = 1
    /\ Len(tracking_data[1]) = GenPoints

\* C8: two invocations of the generator, on the same analyzer or on two, and
\* whatever ran between them, give the same rows, and analyze on each gives
\* the same summary.
C8_GeneratorDeterministic ==
    \A a \in Analyzers : \A b \in Analyzers :
        data_source[a] = "synthetic" /\ data_source[b] = "synthetic" =>
            /\ tracking_data[a] = tracking_data[b]
            /\ tracking_data[a] = SyntheticRows(Seeded(Seed), GenPoints)
            /\ analyzed[a] /\ analyzed[b] => analysis_results[a] = analysis_results[b]

C8_Witness ==
    /\ data_source[1] = "synthetic" /\ data_source[2] = "synthetic"
    /\ analyzed[1] /\ analyzed[2]
    /\ Keys(analysis_results[2]) = SummaryKeys
    /\ last_call.op = "generate_visualizations"
    /\ rng # RngAfterSynthetic(Seeded(Seed), GenPoints)

\* C9: analyze writes nothing but the summary: the stored samples (content
\* and order) and species, duration and data_points are as they were, whether
\* or not a summary is produced.
C9_AnalyzeOnlyWritesSummary ==
    [][last_call'.op = AnalyzeOp =>
          /\ tracking_data' = tracking_data
          /\ data_source' = data_source
          /\ species' = species
          /\ duration' = duration
          /\ data_points' = data_points]_vars

C9_Witness ==
    /\ JustAnalyzed(1)
    /\ HasOthers(tracking_data[1])
    /\ Keys(analysis_results[1]) = SummaryKeys

\* C10: rows of any turtle other than turtle_a and turtle_b never influence
\* the analysis: analyze gives what it gives on the frame without them, and
\* on a frame that holds at most one of turtle_a and turtle_b (beside any
\* others) it produces no summary: it writes nothing.
C10_OtherTurtlesIgnored ==
    [][\A a \in Analyzers :
          last_call'.op = AnalyzeOp /\ last_call'.self = a /\ raised' = NoError =>
              /\ analysis_results'[a] =
                     AnalysisResults(analysis_results[a], WithoutOthers(tracking_data[a]))
              /\ PairCount(tracking_data[a]) = 0 =>
                     analysis_results'[a] = analysis_results[a]]_vars

C10_Witness ==
    /\ JustAnalyzed(1)
    /\ HasOthers(tracking_data[1])
    /\ tracking_data[1][1].turtle_id = "turtle_c"
    /\ PairCount(tracking_data[1]) = 1
    /\ Keys(analysis_results[1]) = SummaryKeys

====
